---- MODULE Spec2Model ----
(***************************************************************************)
(* SPECT collimator simulation: the photon-transport kernel                *)
(* (SPECTSimulator.simulate_photon_transport) and the metrics engine       *)
(* (SPECTSimulator.calculate_metrics) of python-simulation/                *)
(* spect-simulation.py, and the parameter sweep and the Pareto-front       *)
(* selection of python-simulation/optimizer-collimator.py.                 *)
(*                                                                         *)
(* Numbers.  Python floats are modelled in fixed point:                    *)
(*   - geometry lengths (hole_diameter, hole_length, septal_thickness)     *)
(*     in units of 0.1 mm;                                                 *)
(*   - positions on the detector (x0, y0, x, y) in units of 0.01 mm;       *)
(*   - angles in milliradians; sin, cos, tan in 1/1000;                    *)
(*   - probabilities in 1/10000;                                           *)
(*   - every metric in 1/1000 of its unit (percent, mm, ratio).            *)
(* numpy's global generator (np.random) is a deterministic generator with  *)
(* one hidden state shared by every caller in the process; it is modelled  *)
(* by a linear congruential generator over RngModulus states.  Continuous  *)
(* draws are quantised to a few sample points placed so that every branch  *)
(* of the kernel is taken.                                                 *)
(***************************************************************************)
EXTENDS Integers, Sequences, FiniteSets, TLC

VARIABLES
    rng,      \* hidden state of the global generator np.random
    args,     \* per call: the arguments its caller passes
    pc,       \* per call: position of the caller / of the kernel loop
    sim,      \* per call: the SPECTSimulator object, << >> before __init__
    loc,      \* per call: the locals of simulate_photon_transport
    result,   \* per call: the returned dict, << >> before the return
    metrics,  \* per call: the dict calculate_metrics returned, << >> before
    exc,      \* per call: the exception that ended the call, "" if none
    params,   \* per call: the CollimatorParams object, << >> before it is built
    rng0,     \* per call: the generator state when simulate was entered
    opc,      \* optimizer-collimator.py: position of the script, "idle" if not run
    current,  \* parameter_sweep_analysis: number of the run in progress
    results,  \* parameter_sweep_analysis: the rows so far / the DataFrame df
    oexc,     \* the exception that ended the script, "" if none
    lead_data_sorted,  \* visualize_optimization_results: the sorted lead rows
    pareto_points,     \* visualize_optimization_results: the rows selected
    min_resolution,    \* running minimum, << >> for float('inf')
    row_i     \* number of rows of lead_data_sorted already iterated over

vars == <<rng, args, pc, sim, loc, result, metrics, exc, params, rng0,
          opc, current, results, oexc, lead_data_sorted, pareto_points,
          min_resolution, row_i>>

\* the state of the optimizer script
OptVars == <<opc, current, results, oexc, lead_data_sorted, pareto_points,
             min_resolution, row_i>>

Calls == {1, 2}

(***************************************************************************)
(* Bounds of the model.                                                    *)
(***************************************************************************)
MaxPhotons == 3      \* num_photons ranges over 0..MaxPhotons in Spec
RngModulus == 64     \* number of states of the modelled generator
MaxListLen == 11     \* longest detected-photon list given to calculate_metrics

(***************************************************************************)
(* Arithmetic helpers.                                                     *)
(***************************************************************************)
Abs(a) == IF a < 0 THEN -a ELSE a

\* Python's float division, rounded toward zero in fixed point.
Quot(a, b) ==
    IF (a < 0) = (b < 0) THEN Abs(a) \div Abs(b) ELSE -(Abs(a) \div Abs(b))

RECURSIVE SqrtSearch(_, _, _)
SqrtSearch(v, lo, hi) ==
    IF lo >= hi THEN lo
    ELSE LET mid == (lo + hi + 1) \div 2
         IN  IF mid * mid <= v THEN SqrtSearch(v, mid, hi)
             ELSE SqrtSearch(v, lo, mid - 1)

\* floor of the square root (np.sqrt, np.std)
ISqrt(v) == SqrtSearch(v, 0, 46340)

(***************************************************************************)
(* Material database and collimator parameters.                            *)
(***************************************************************************)
\* density in 0.01 g/cm^3, attenuation_coefficient in 1/cm
MATERIALS ==
    [lead     |-> [density |-> 1134, attenuation_coefficient |-> 23, name |-> "Lead"],
     tungsten |-> [density |-> 1925, attenuation_coefficient |-> 18, name |-> "Tungsten"],
     brass    |-> [density |-> 850,  attenuation_coefficient |-> 8,  name |-> "Brass"]]

\* CollimatorParams is a plain dataclass: its generated __init__ stores the
\* fields and checks nothing.  float64 tells whether the lengths are numpy
\* float64 scalars (as np.linspace yields) or Python floats: the two differ
\* on division by zero.
CollimatorParams(d, l, t, m, f64) ==
    [hole_diameter |-> d, hole_length |-> l, septal_thickness |-> t,
     material |-> m, num_holes_x |-> 100, num_holes_y |-> 100, float64 |-> f64]

(***************************************************************************)
(* The global generator np.random.                                         *)
(***************************************************************************)
RngNext(s) == (s * 5 + 3) % RngModulus

\* the generator's output, quantised to g equally likely cells 0..g-1
Quantise(s, g) == (s * g) \div RngModulus

\* np.random.seed(seed), called by the caller before a reproducible run
SeedState(seed) == seed % RngModulus

\* sample points of theta = np.random.uniform(-pi/6, pi/6), in milliradians
ThetaGrid == <<-523, -44, -36, -24, -16, 0, 16, 24, 36, 44, 523>>
RandomTheta(s) == ThetaGrid[Quantise(s, Len(ThetaGrid)) + 1]

\* phi = np.random.uniform(0, 2*pi), in quarter turns 0..3
RandomPhi(s) == Quantise(s, 4)

\* np.random.uniform(lo, hi) = lo + (hi - lo) * u, u at the quarter points
Uniform(lo, hi, s) == lo + Quot((hi - lo) * Quantise(s, 4), 4)

\* sample points of np.random.random(), in 1/10000
UnitGrid == <<0, 5000, 9900, 9950, 9990>>
RandomUnit(s) == UnitGrid[Quantise(s, Len(UnitGrid)) + 1]

\* np.random.normal(140, 140 * 0.1 / 2.355) at mean - sigma, mean, mean + sigma,
\* in 0.1 keV
EnergyGrid == <<1341, 1400, 1459>>
RandomEnergy(s) == EnergyGrid[Quantise(s, Len(EnergyGrid)) + 1]

(***************************************************************************)
(* Trigonometry on the sample points (values in 1/1000).                   *)
(***************************************************************************)
SinAbs(a) == CASE a = 0 -> 0 [] a = 16 -> 16 [] a = 24 -> 24 [] a = 36 -> 36
               [] a = 44 -> 44 [] a = 523 -> 499
\* the sine taken for the cosine
CosAsSine(theta) == IF theta < 0 THEN -SinAbs(-theta) ELSE SinAbs(theta)
\* np.cos(theta)
Cos(theta) == CASE Abs(theta) = 0 -> 1000 [] Abs(theta) = 16 -> 1000
                [] Abs(theta) = 24 -> 1000 [] Abs(theta) = 36 -> 999
                [] Abs(theta) = 44 -> 999  [] Abs(theta) = 523 -> 866
Sin(theta) == IF theta < 0 THEN -SinAbs(-theta) ELSE SinAbs(theta)
TanAbs(a) == CASE a = 0 -> 0 [] a = 16 -> 16 [] a = 24 -> 24 [] a = 36 -> 36
               [] a = 44 -> 44 [] a = 523 -> 577
Tan(theta) == IF theta < 0 THEN -TanAbs(-theta) ELSE TanAbs(theta)
CosPhi(k) == CASE k = 0 -> 1 [] k = 1 -> 0 [] k = 2 -> -1 [] k = 3 -> 0
SinPhi(k) == CASE k = 0 -> 0 [] k = 1 -> 1 [] k = 2 -> 0  [] k = 3 -> -1

\* np.exp(-a) for a >= 0, a and the result in 1/10000: halving of the argument
\* down to 0.1, then the series 1 - a + a^2/2 - a^3/6
RECURSIVE ExpNeg(_)
ExpNeg(a) ==
    IF a > 200000 THEN 0
    ELSE IF a <= 1000
         THEN 10000 - a + ((a * a) \div 20000) - ((((a * a) \div 20000) * a) \div 30000)
         ELSE LET h == ExpNeg(a \div 2) IN (h * h) \div 10000

(***************************************************************************)
(* The steps of one trial of simulate_photon_transport, as operators.      *)
(***************************************************************************)
\* detector_width / detector_height, in 0.01 mm
DetectorWidth(p)  == p.num_holes_x * (p.hole_diameter + p.septal_thickness) * 10
DetectorHeight(p) == p.num_holes_y * (p.hole_diameter + p.septal_thickness) * 10

\* hole_x_idx = int((x0 + detector_width/2) / (hole_diameter + septal_thickness)):
\* the indices are never used, but the division is evaluated.  With a zero
\* pitch the detector has zero width, x0 = 0 and the quotient is 0/0: Python
\* floats raise ZeroDivisionError, numpy float64 yields nan and int(nan)
\* raises ValueError.  "" when nothing is raised.
HoleIndexError(p) ==
    IF p.hole_diameter + p.septal_thickness = 0
    THEN (IF p.float64 THEN "ValueError" ELSE "ZeroDivisionError")
    ELSE ""

\* hole_diameter / (2 * hole_length): Python floats raise on a zero length
AcceptanceError(p) ==
    IF p.hole_length = 0 /\ ~p.float64 THEN "ZeroDivisionError" ELSE ""

\* abs(theta) > arctan(hole_diameter / (2 * hole_length)), decided on the
\* tangents (arctan and tan are increasing on (-pi/2, pi/2)).  For numpy
\* float64 and a zero length the quotient is inf, nan or -inf: arctan gives
\* pi/2 (never exceeded), nan (every comparison False) or -pi/2 (always
\* exceeded).
GeometricallyRejected(theta, p) ==
    LET d    == p.hole_diameter
        twoL == 2 * p.hole_length
    IN  IF twoL = 0 THEN d < 0
        ELSE IF twoL > 0 THEN Tan(Abs(theta)) * twoL > 1000 * d
        ELSE Tan(Abs(theta)) * twoL < 1000 * d

\* the small-angle cut-off set too wide: 16 mrad still counts as on-axis
CalculateSeptalPathWideCutoff(theta, phi, p) ==
    IF Abs(theta) <= 16 THEN 0
    ELSE p.septal_thickness * Abs(Tan(theta))

\* _calculate_septal_path, in 1/10000 mm; abs(theta) < 1e-6 is theta = 0 on
\* the sample points
CalculateSeptalPath(theta, phi, p) ==
    IF Abs(theta) = 0 THEN 0
    ELSE p.septal_thickness * Abs(Tan(theta))

\* attenuation_prob = exp(-attenuation_coefficient * septal_path_length / 10),
\* in 1/10000
AttenuationProb(material, septal_path_length) ==
    ExpNeg((material.attenuation_coefficient * septal_path_length) \div 10)

\* np.random.random() > attenuation_prob
SeptallyAbsorbed(u, attenuation_prob) == u > attenuation_prob

\* x_final = x0 + dx * hole_length / dz with dx = sin(theta) * cos(phi),
\* dz = cos(theta); y_final likewise with dy = sin(theta) * sin(phi)
FinalX(x0, theta, phi, p) ==
    x0 + Quot(Sin(theta) * CosPhi(phi) * p.hole_length * 10, Cos(theta))
FinalY(y0, theta, phi, p) ==
    y0 + Quot(Sin(theta) * SinPhi(phi) * p.hole_length * 10, Cos(theta))

\* the loop bound off by one: one trial too many
LoopContinuesInclusive(i, num_photons) == i <= num_photons

\* range(num_photons): whether trial number i (from 0) is run
LoopContinues(i, num_photons) == i < num_photons

\* the accumulator kept across calls (a shared list rather than a fresh
\* local): a run starts from the detections of the run before it
EntryLocalsStale(p) ==
    [i |-> 0,
     detected_photons |->
        IF result[1] # << >> THEN result[1][1].detected_photons ELSE << >>,
     septal_penetration_count |-> 0, geometric_rejection_count |-> 0,
     detector_width |-> DetectorWidth(p), detector_height |-> DetectorHeight(p),
     theta |-> 0, phi |-> 0, x0 |-> 0, y0 |-> 0]

\* the locals at entry: detected_photons = [], both counters 0
EntryLocals(p) ==
    [i |-> 0, detected_photons |-> << >>,
     septal_penetration_count |-> 0, geometric_rejection_count |-> 0,
     detector_width |-> DetectorWidth(p), detector_height |-> DetectorHeight(p),
     theta |-> 0, phi |-> 0, x0 |-> 0, y0 |-> 0]

\* the dict simulate_photon_transport returns
ReturnValue(l, num_photons) ==
    [detected_photons   |-> l.detected_photons,
     total_photons      |-> num_photons,
     detected_count     |-> Len(l.detected_photons),
     septal_penetration |-> l.septal_penetration_count,
     geometric_rejection |-> l.geometric_rejection_count]

(***************************************************************************)
(* calculate_metrics.  Every metric is in 1/1000 of its unit.              *)
(***************************************************************************)
MinStatistics == 10   \* len(positions) < 10 / len(photons) < 10
GridSize      == 10   \* grid_size=10, the bins of np.histogram2d per axis
FwhmFactor    == 2355 \* 2.355, in 1/1000

RECURSIVE RangeSum(_, _, _)
RangeSum(q, lo, hi) ==
    IF lo > hi THEN 0
    ELSE IF lo = hi THEN q[lo]
    ELSE LET mid == (lo + hi) \div 2
         IN  RangeSum(q, lo, mid) + RangeSum(q, mid + 1, hi)

\* sum(q), np.sum
SeqSum(q) == RangeSum(q, 1, Len(q))

Xs(photons) == [k \in 1..Len(photons) |-> photons[k].x]
Ys(photons) == [k \in 1..Len(photons) |-> photons[k].y]
Squares(q)  == [k \in 1..Len(q) |-> q[k] * q[k]]
RECURSIVE RangeMin(_, _, _)
RangeMin(q, lo, hi) ==
    IF lo = hi THEN q[lo]
    ELSE LET mid == (lo + hi) \div 2
             a == RangeMin(q, lo, mid)
             b == RangeMin(q, mid + 1, hi)
         IN  IF a < b THEN a ELSE b

\* min and max of a non-empty sequence (the range np.histogram2d spans)
SeqMin(q) == RangeMin(q, 1, Len(q))
SeqMax(q) == -RangeMin([k \in 1..Len(q) |-> -q[k]], 1, Len(q))

\* the factor 100 forgotten: a fraction, not a percentage
PercentAsFraction(a, b) == Quot(a * 1000, b)

\* a / b * 100
Percent(a, b) == Quot(a * 100000, b)

\* the threshold off by one: 10 positions still count as too few
CalculateFwhmOffByOne(positions) ==
    IF Len(positions) <= MinStatistics THEN 0
    ELSE LET n == Len(positions)
             v == n * SeqSum(Squares(positions)) - SeqSum(positions) * SeqSum(positions)
         IN  (FwhmFactor * ISqrt(v * 100)) \div (n * 1000)

\* the spread taken about the first position instead of the mean
CalculateFwhmAboutFirst(positions) ==
    IF Len(positions) < MinStatistics THEN 0
    ELSE LET n == Len(positions)
             v == n * SeqSum([k \in 1..n |->
                      (positions[k] - positions[1]) * (positions[k] - positions[1])])
         IN  (FwhmFactor * ISqrt(v * 100)) \div (n * 1000)

\* _calculate_fwhm: 2.355 * np.std(positions), the population standard
\* deviation sqrt(n * sum(x^2) - sum(x)^2) / n; positions in 0.01 mm
CalculateFwhm(positions) ==
    IF Len(positions) < MinStatistics THEN 0
    ELSE LET n == Len(positions)
             v == n * SeqSum(Squares(positions)) - SeqSum(positions) * SeqSum(positions)
         IN  (FwhmFactor * ISqrt(v * 100)) \div (n * 1000)

\* the bin np.histogram2d puts v in, for data spanning lo..hi: the last bin
\* is closed on the right, and a degenerate span lo = hi is widened to
\* lo - 0.5 .. hi + 0.5
BinIndex(v, lo, hi) ==
    IF lo = hi THEN GridSize \div 2
    ELSE IF v = hi THEN GridSize - 1
    ELSE ((v - lo) * GridSize) \div (hi - lo)

\* the sum over the bins of hist of count^2 = the number of pairs of photons
\* sharing a bin
SumSquaredCounts(photons) ==
    LET x == Xs(photons)
        y == Ys(photons)
        xlo == SeqMin(x)
        xhi == SeqMax(x)
        ylo == SeqMin(y)
        yhi == SeqMax(y)
        bins == [k \in 1..Len(photons) |->
                   BinIndex(x[k], xlo, xhi) * GridSize + BinIndex(y[k], ylo, yhi)]
        same == [k \in 1..Len(photons) |->
                   Cardinality({j \in 1..Len(photons) : bins[j] = bins[k]})]
    IN  SeqSum(same)

\* _calculate_uniformity: max(0, (1 - std_counts / mean_counts) * 100) over the
\* grid_size^2 bins, where std/mean = sqrt(bins * sum(c^2) - n^2) / n.  A
\* coefficient of variation of 1 or more gives 0 (decided before the root is
\* taken, to keep the fixed-point product small).
CalculateUniformity(photons) ==
    IF Len(photons) < MinStatistics THEN 0
    ELSE LET n == Len(photons)
             q == GridSize * GridSize * SumSquaredCounts(photons) - n * n
         IN  IF q >= n * n THEN 0
             ELSE 100000 - (ISqrt(q * 10000) * 1000) \div n

\* the exception calculate_metrics raises, "" if none: len(photons) / total
\* with Python ints raises ZeroDivisionError on total = 0
CalculateMetricsError(r) ==
    IF Len(r.detected_photons) # 0 /\ r.total_photons = 0
    THEN "ZeroDivisionError" ELSE ""

\* the dict calculate_metrics returns
CalculateMetrics(r) ==
    LET photons == r.detected_photons
        total   == r.total_photons
    IN  IF Len(photons) = 0
        THEN [sensitivity |-> 0, spatial_resolution_fwhm |-> 0,
              uniformity |-> 0, contrast_to_noise |-> 0]
        ELSE [sensitivity |-> Percent(Len(photons), total),
              spatial_resolution_fwhm |-> CalculateFwhm(Xs(photons)),
              uniformity |-> CalculateUniformity(photons),
              contrast_to_noise |-> ISqrt(Len(photons) * 1000000),
              septal_penetration_fraction |-> Percent(r.septal_penetration, total),
              geometric_efficiency |-> Percent(total - r.geometric_rejection, total)]

(***************************************************************************)
(* The callers' inputs.                                                    *)
(***************************************************************************)
\* [d, l, t, f64]: the reference design, a wider hole, a zero hole length as
\* Python float and as numpy float64, a negative hole length, a zero hole
\* diameter, and a zero diameter with zero septal thickness
Geometries ==
    { <<15, 250, 2, FALSE>>, <<25, 250, 2, FALSE>>, <<15, 0, 2, FALSE>>,
      <<15, 0, 2, TRUE>>, <<15, -250, 2, FALSE>>, <<0, 250, 2, FALSE>>,
      <<0, 250, 0, FALSE>> }
MaterialNames   == {"lead", "tungsten", "brass", "steel"}
SourceDistances == {1000}
\* << >>: the caller does not seed the generator; <<s>>: np.random.seed(s)
SeedChoices     == {<< >>, <<7>>, <<42>>}

ArgsOf(g, m, n, sd, seed) ==
    [hole_diameter |-> g[1], hole_length |-> g[2], septal_thickness |-> g[3],
     float64 |-> g[4], material |-> m, num_photons |-> n,
     source_distance |-> sd, seed |-> seed]

AllArgs ==
    { ArgsOf(g, m, n, sd, seed) :
        g \in Geometries, m \in MaterialNames, n \in 0..MaxPhotons,
        sd \in SourceDistances, seed \in SeedChoices }

\* the arguments of a call that is never made
NoArgs == ArgsOf(<<15, 250, 2, FALSE>>, "lead", 0, 1000, << >>)

(***************************************************************************)
(* Actions.  Each call c is one caller: it builds the parameters and the   *)
(* simulator, optionally seeds the generator, runs the kernel and hands    *)
(* the result to calculate_metrics.                                        *)
(***************************************************************************)
Raise(c, e) ==
    /\ pc' = [pc EXCEPT ![c] = "raised"]
    /\ exc' = [exc EXCEPT ![c] = e]

\* params = CollimatorParams(hole_diameter=..., hole_length=..., ...)
NewParams(c) ==
    /\ pc[c] = "new"
    /\ params' = [params EXCEPT ![c] =
          <<CollimatorParams(args[c].hole_diameter, args[c].hole_length,
                             args[c].septal_thickness, args[c].material,
                             args[c].float64)>>]
    /\ pc' = [pc EXCEPT ![c] = "params"]
    /\ UNCHANGED <<rng, args, sim, loc, result, metrics, exc, rng0>>
    /\ UNCHANGED OptVars

\* SPECTSimulator.__init__: self.material = MATERIALS[params.material]
NewSimulator(c) ==
    /\ pc[c] = "params"
    /\ LET p == params[c][1]
       IN  IF p.material \in DOMAIN MATERIALS
           THEN /\ sim' = [sim EXCEPT ![c] =
                              <<[params |-> p, material |-> MATERIALS[p.material]]>>]
                /\ pc' = [pc EXCEPT ![c] = "ready"]
                /\ exc' = exc
           ELSE /\ Raise(c, "KeyError")
                /\ sim' = sim
    /\ UNCHANGED <<rng, args, loc, result, metrics, params, rng0>>
    /\ UNCHANGED OptVars

\* the caller's np.random.seed(seed)
SeedGenerator(c) ==
    /\ pc[c] = "ready"
    /\ args[c].seed # << >>
    /\ rng' = SeedState(args[c].seed[1])
    /\ pc' = [pc EXCEPT ![c] = "seeded"]
    /\ UNCHANGED <<args, sim, loc, result, metrics, exc, params, rng0>>
    /\ UNCHANGED OptVars

\* source_distance wired into the geometry: the detector face magnified in
\* proportion to the distance of the source (100 mm is the default)
BeginSimulateMagnified(c) ==
    /\ \/ pc[c] = "seeded"
       \/ pc[c] = "ready" /\ args[c].seed = << >>
    /\ LET l == EntryLocals(sim[c][1].params)
       IN  loc' = [loc EXCEPT ![c] =
              [l EXCEPT !.detector_width = (@ * args[c].source_distance) \div 1000,
                        !.detector_height = (@ * args[c].source_distance) \div 1000]]
    /\ rng0' = [rng0 EXCEPT ![c] = rng]
    /\ pc' = [pc EXCEPT ![c] = "loop"]
    /\ UNCHANGED <<rng, args, sim, result, metrics, exc, params>>
    /\ UNCHANGED OptVars

\* entry of simulate_photon_transport: the locals, the detector dimensions
BeginSimulate(c) ==
    /\ \/ pc[c] = "seeded"
       \/ pc[c] = "ready" /\ args[c].seed = << >>
    /\ loc' = [loc EXCEPT ![c] = EntryLocals(sim[c][1].params)]
    /\ rng0' = [rng0 EXCEPT ![c] = rng]
    /\ pc' = [pc EXCEPT ![c] = "loop"]
    /\ UNCHANGED <<rng, args, sim, result, metrics, exc, params>>
    /\ UNCHANGED OptVars

\* for _ in range(num_photons): the next trial starts
NextTrial(c) ==
    /\ pc[c] = "loop"
    /\ LoopContinues(loc[c].i, args[c].num_photons)
    /\ pc' = [pc EXCEPT ![c] = "theta"]
    /\ UNCHANGED <<rng, args, sim, loc, result, metrics, exc, params, rng0>>
    /\ UNCHANGED OptVars

\* the loop is exhausted: return the dict
Return(c) ==
    /\ pc[c] = "loop"
    /\ ~LoopContinues(loc[c].i, args[c].num_photons)
    /\ result' = [result EXCEPT ![c] = <<ReturnValue(loc[c], args[c].num_photons)>>]
    /\ pc' = [pc EXCEPT ![c] = "returned"]
    /\ UNCHANGED <<rng, args, sim, loc, metrics, exc, params, rng0>>
    /\ UNCHANGED OptVars

DrawTheta(c) ==
    /\ pc[c] = "theta"
    /\ loc' = [loc EXCEPT ![c].theta = RandomTheta(rng)]
    /\ rng' = RngNext(rng)
    /\ pc' = [pc EXCEPT ![c] = "phi"]
    /\ UNCHANGED <<args, sim, result, metrics, exc, params, rng0>>
    /\ UNCHANGED OptVars

DrawPhi(c) ==
    /\ pc[c] = "phi"
    /\ loc' = [loc EXCEPT ![c].phi = RandomPhi(rng)]
    /\ rng' = RngNext(rng)
    /\ pc' = [pc EXCEPT ![c] = "x0"]
    /\ UNCHANGED <<args, sim, result, metrics, exc, params, rng0>>
    /\ UNCHANGED OptVars

DrawX0(c) ==
    /\ pc[c] = "x0"
    /\ LET w == loc[c].detector_width
       IN  loc' = [loc EXCEPT ![c].x0 = Uniform(Quot(-w, 2), Quot(w, 2), rng)]
    /\ rng' = RngNext(rng)
    /\ pc' = [pc EXCEPT ![c] = "y0"]
    /\ UNCHANGED <<args, sim, result, metrics, exc, params, rng0>>
    /\ UNCHANGED OptVars

DrawY0(c) ==
    /\ pc[c] = "y0"
    /\ LET h == loc[c].detector_height
       IN  loc' = [loc EXCEPT ![c].y0 = Uniform(Quot(-h, 2), Quot(h, 2), rng)]
    /\ rng' = RngNext(rng)
    /\ pc' = [pc EXCEPT ![c] = "accept"]
    /\ UNCHANGED <<args, sim, result, metrics, exc, params, rng0>>
    /\ UNCHANGED OptVars

\* the acceptance test with its "continue" forgotten: a rejected photon is
\* counted and then goes on to the septal test of the same trial
AcceptanceFallsThrough(c) ==
    /\ pc[c] = "accept"
    /\ LET p == sim[c][1].params
       IN  IF HoleIndexError(p) # ""
           THEN Raise(c, HoleIndexError(p)) /\ loc' = loc
           ELSE IF AcceptanceError(p) # ""
           THEN Raise(c, AcceptanceError(p)) /\ loc' = loc
           ELSE /\ loc' = IF GeometricallyRejected(loc[c].theta, p)
                          THEN [loc EXCEPT ![c].geometric_rejection_count = @ + 1]
                          ELSE loc
                /\ pc' = [pc EXCEPT ![c] = "septal"]
                /\ exc' = exc
    /\ UNCHANGED <<rng, args, sim, result, metrics, params, rng0>>
    /\ UNCHANGED OptVars

\* direction cosines, hole indices and the geometric acceptance test
Acceptance(c) ==
    /\ pc[c] = "accept"
    /\ LET p == sim[c][1].params
       IN  IF HoleIndexError(p) # ""
           THEN Raise(c, HoleIndexError(p)) /\ loc' = loc
           ELSE IF AcceptanceError(p) # ""
           THEN Raise(c, AcceptanceError(p)) /\ loc' = loc
           ELSE IF GeometricallyRejected(loc[c].theta, p)
           THEN /\ loc' = [loc EXCEPT
                     ![c].geometric_rejection_count = @ + 1, ![c].i = @ + 1]
                /\ pc' = [pc EXCEPT ![c] = "loop"]
                /\ exc' = exc
           ELSE /\ pc' = [pc EXCEPT ![c] = "septal"]
                /\ UNCHANGED <<loc, exc>>
    /\ UNCHANGED <<rng, args, sim, result, metrics, params, rng0>>
    /\ UNCHANGED OptVars

\* the septal test with its "continue" forgotten: an absorbed photon is
\* counted and still goes on to the detector
SeptalFallsThrough(c) ==
    /\ pc[c] = "septal"
    /\ LET p    == sim[c][1].params
           path == CalculateSeptalPath(loc[c].theta, loc[c].phi, p)
           prob == AttenuationProb(sim[c][1].material, path)
       IN  loc' = IF SeptallyAbsorbed(RandomUnit(rng), prob)
                  THEN [loc EXCEPT ![c].septal_penetration_count = @ + 1]
                  ELSE loc
    /\ pc' = [pc EXCEPT ![c] = "detect"]
    /\ rng' = RngNext(rng)
    /\ UNCHANGED <<args, sim, result, metrics, exc, params, rng0>>
    /\ UNCHANGED OptVars

\* septal path, Beer-Lambert survival probability and the survival draw
Septal(c) ==
    /\ pc[c] = "septal"
    /\ LET p    == sim[c][1].params
           path == CalculateSeptalPath(loc[c].theta, loc[c].phi, p)
           prob == AttenuationProb(sim[c][1].material, path)
       IN  IF SeptallyAbsorbed(RandomUnit(rng), prob)
           THEN /\ loc' = [loc EXCEPT
                     ![c].septal_penetration_count = @ + 1, ![c].i = @ + 1]
                /\ pc' = [pc EXCEPT ![c] = "loop"]
           ELSE /\ pc' = [pc EXCEPT ![c] = "detect"]
                /\ loc' = loc
    /\ rng' = RngNext(rng)
    /\ UNCHANGED <<args, sim, result, metrics, exc, params, rng0>>
    /\ UNCHANGED OptVars

\* the photon reaches the detector: final position, sampled energy, append
Detect(c) ==
    /\ pc[c] = "detect"
    /\ LET p == sim[c][1].params
           photon == [x |-> FinalX(loc[c].x0, loc[c].theta, loc[c].phi, p),
                      y |-> FinalY(loc[c].y0, loc[c].theta, loc[c].phi, p),
                      energy |-> RandomEnergy(rng)]
       IN  loc' = [loc EXCEPT ![c].detected_photons = Append(@, photon),
                              ![c].i = @ + 1]
    /\ rng' = RngNext(rng)
    /\ pc' = [pc EXCEPT ![c] = "loop"]
    /\ UNCHANGED <<args, sim, result, metrics, exc, params, rng0>>
    /\ UNCHANGED OptVars

\* metrics = simulator.calculate_metrics(sim_results)
Measure(c) ==
    /\ pc[c] = "returned"
    /\ IF CalculateMetricsError(result[c][1]) # ""
       THEN Raise(c, CalculateMetricsError(result[c][1])) /\ metrics' = metrics
       ELSE /\ metrics' = [metrics EXCEPT ![c] = <<CalculateMetrics(result[c][1])>>]
            /\ pc' = [pc EXCEPT ![c] = "measured"]
            /\ exc' = exc
    /\ UNCHANGED <<rng, args, sim, loc, result, params, rng0>>
    /\ UNCHANGED OptVars

Step(c) ==
    \/ NewParams(c)
    \/ NewSimulator(c)
    \/ SeedGenerator(c)
    \/ BeginSimulate(c)
    \/ NextTrial(c)
    \/ Return(c)
    \/ DrawTheta(c)
    \/ DrawPhi(c)
    \/ DrawX0(c)
    \/ DrawY0(c)
    \/ Acceptance(c)
    \/ Septal(c)
    \/ Detect(c)
    \/ Measure(c)

(***************************************************************************)
(* Spec: one caller, every input.                                          *)
(***************************************************************************)
\* the locals of a call that has not entered the kernel
NoLocals ==
    [i |-> 0, detected_photons |-> << >>,
     septal_penetration_count |-> 0, geometric_rejection_count |-> 0,
     detector_width |-> 0, detector_height |-> 0,
     theta |-> 0, phi |-> 0, x0 |-> 0, y0 |-> 0]

\* the optimizer script is not run
OptIdle ==
    /\ opc = "idle"
    /\ current = 0
    /\ results = << >>
    /\ oexc = ""
    /\ lead_data_sorted = << >>
    /\ pareto_points = << >>
    /\ min_resolution = << >>
    /\ row_i = 0

InitCommon ==
    /\ OptIdle
    /\ sim = [c \in Calls |-> << >>]
    /\ params = [c \in Calls |-> << >>]
    /\ loc = [c \in Calls |-> NoLocals]
    /\ metrics = [c \in Calls |-> << >>]
    /\ exc = [c \in Calls |-> ""]
    /\ rng0 = [c \in Calls |-> 0]

Init ==
    /\ InitCommon
    /\ rng \in 0..(RngModulus - 1)
    /\ result = [c \in Calls |-> << >>]
    /\ \E a \in AllArgs : args = [c \in Calls |-> IF c = 1 THEN a ELSE NoArgs]
    /\ pc = [c \in Calls |-> IF c = 1 THEN "new" ELSE "absent"]

Next == Step(1)

Spec == Init /\ [][Next]_vars

(***************************************************************************)
(* simulate_photon_transport as one function of the generator state at     *)
(* entry: the result of a call that runs with no other user of np.random.  *)
(* exc is the exception raised ("" if none), value the returned dict, rng   *)
(* the state the generator is left in.                                     *)
(***************************************************************************)
RECURSIVE RunTrials(_, _, _, _)
RunTrials(s, l, simulator, num_photons) ==
    IF ~LoopContinues(l.i, num_photons)
    THEN [exc |-> "", value |-> <<ReturnValue(l, num_photons)>>, rng |-> s]
    ELSE LET p     == simulator.params
             theta == RandomTheta(s)
             s1    == RngNext(s)
             phi   == RandomPhi(s1)
             s2    == RngNext(s1)
             x0    == Uniform(Quot(-l.detector_width, 2), Quot(l.detector_width, 2), s2)
             s3    == RngNext(s2)
             y0    == Uniform(Quot(-l.detector_height, 2), Quot(l.detector_height, 2), s3)
             s4    == RngNext(s3)
             drawn == [l EXCEPT !.theta = theta, !.phi = phi, !.x0 = x0, !.y0 = y0]
             prob  == AttenuationProb(simulator.material,
                                      CalculateSeptalPath(theta, phi, p))
             s5    == RngNext(s4)
             photon == [x |-> FinalX(x0, theta, phi, p),
                        y |-> FinalY(y0, theta, phi, p),
                        energy |-> RandomEnergy(s5)]
         IN  IF HoleIndexError(p) # ""
             THEN [exc |-> HoleIndexError(p), value |-> << >>, rng |-> s4]
             ELSE IF AcceptanceError(p) # ""
             THEN [exc |-> AcceptanceError(p), value |-> << >>, rng |-> s4]
             ELSE IF GeometricallyRejected(theta, p)
             THEN RunTrials(s4, [drawn EXCEPT !.geometric_rejection_count = @ + 1,
                                              !.i = @ + 1],
                            simulator, num_photons)
             ELSE IF SeptallyAbsorbed(RandomUnit(s4), prob)
             THEN RunTrials(s5, [drawn EXCEPT !.septal_penetration_count = @ + 1,
                                              !.i = @ + 1],
                            simulator, num_photons)
             ELSE RunTrials(RngNext(s5),
                            [drawn EXCEPT !.detected_photons = Append(@, photon),
                                          !.i = @ + 1],
                            simulator, num_photons)

SimulateAlone(simulator, num_photons, s) ==
    RunTrials(s, EntryLocals(simulator.params), simulator, num_photons)

(***************************************************************************)
(* SpecRepeat: two callers, the second after the first has finished (two   *)
(* runs of one script).  SpecConc: two callers whose steps interleave (two *)
(* threads of one process, switching between the kernel's statements).     *)
(***************************************************************************)
MaxConcPhotons == 1   \* num_photons ranges over 1..MaxConcPhotons in SpecConc

Finished(c) == pc[c] \in {"measured", "raised"}

RepeatArgs ==
    { ArgsOf(g, m, n, sd, seed) :
        g \in {<<15, 250, 2, FALSE>>, <<25, 250, 2, FALSE>>},
        m \in {"lead", "brass"}, n \in {MaxPhotons - 1, MaxPhotons},
        sd \in SourceDistances, seed \in SeedChoices }

InitRepeat ==
    /\ InitCommon
    /\ rng \in 0..(RngModulus - 1)
    /\ result = [c \in Calls |-> << >>]
    /\ args \in [Calls -> RepeatArgs]
    /\ pc = [c \in Calls |-> "new"]

NextRepeat ==
    \/ Step(1)
    \/ Finished(1) /\ Step(2)

SpecRepeat == InitRepeat /\ [][NextRepeat]_vars

\* both callers use the wide-hole lead collimator; only the second may seed
ConcArgs(c) ==
    { ArgsOf(g, m, n, sd, seed) :
        g \in {<<25, 250, 2, FALSE>>}, m \in {"lead"}, n \in 1..MaxConcPhotons,
        sd \in SourceDistances,
        seed \in IF c = 1 THEN {<< >>} ELSE {<< >>, <<7>>} }

InitConc ==
    /\ InitCommon
    /\ rng \in 0..(RngModulus - 1)
    /\ result = [c \in Calls |-> << >>]
    /\ args \in [Calls -> ConcArgs(1) \cup ConcArgs(2)]
    /\ \A c \in Calls : args[c] \in ConcArgs(c)
    /\ pc = [c \in Calls |-> "new"]

NextConc == \E c \in Calls : Step(c)

SpecConc == InitConc /\ [][NextConc]_vars

(***************************************************************************)
(* SpecMetrics, SpecMetricsAny: calculate_metrics as a function of the     *)
(* dict it is given.  Call 1 is given a list of up to MaxListLen photons,  *)
(* call 2 a list at the threshold of MinStatistics photons or a list       *)
(* spread over the whole grid.  In SpecMetrics the counters are those of a *)
(* run (they add up to total_photons); in SpecMetricsAny the dict is       *)
(* arbitrary.                                                              *)
(***************************************************************************)
MaxLost  == 2   \* septal_penetration, geometric_rejection range over 0..MaxLost
MaxTotal == 3   \* total_photons ranges over 0..MaxTotal in SpecMetricsAny

\* n photons on a few positions (0.01 mm); a = 0 puts them all on one x
PatternList(n, a, b) ==
    [k \in 1..n |-> [x |-> ((a * k) % 7) * 10 - 30,
                     y |-> ((b * k) % 5) * 10 - 20,
                     energy |-> 1400]]

\* n photons laid row by row on a 10 x 10 lattice
LatticeList(n) ==
    [k \in 1..n |-> [x |-> ((k - 1) % 10) * 10,
                     y |-> (((k - 1) \div 10) % 10) * 10,
                     energy |-> 1400]]

SmallLists == { PatternList(n, a, b) : n \in 0..MaxListLen, a \in 0..3, b \in 0..2 }
LargeLists == { PatternList(10, 1, 1), LatticeList(60) }

ResultOf(photons, total, septal, rejected) ==
    [detected_photons |-> photons, total_photons |-> total,
     detected_count |-> Len(photons), septal_penetration |-> septal,
     geometric_rejection |-> rejected]

RunResults(lists) ==
    { ResultOf(ph, Len(ph) + sp, sp, 0) : ph \in lists, sp \in 0..MaxLost }
    \cup { ResultOf(ph, Len(ph) + gr, 0, gr) : ph \in lists, gr \in 0..MaxLost }
    \cup { ResultOf(ph, Len(ph) + 2 * MaxLost, MaxLost, MaxLost) : ph \in lists }

AnyResults(lists) ==
    { ResultOf(ph, total, sp, gr) :
        ph \in lists, total \in 0..MaxTotal, sp \in 0..MaxLost, gr \in 0..MaxLost }

InitMeasure(r1, r2) ==
    /\ InitCommon
    /\ rng = 0
    /\ result = [c \in Calls |-> IF c = 1 THEN <<r1>> ELSE <<r2>>]
    /\ args = [c \in Calls |->
                 ArgsOf(<<15, 250, 2, FALSE>>, "lead",
                        IF c = 1 THEN r1.total_photons ELSE r2.total_photons,
                        1000, << >>)]
    /\ pc = [c \in Calls |-> "returned"]

InitMetrics ==
    \E r1 \in RunResults(SmallLists) :
        \E r2 \in { ResultOf(ph, Len(ph), 0, 0) : ph \in LargeLists } :
            InitMeasure(r1, r2)

InitMetricsAny ==
    \E r1 \in AnyResults(SmallLists) :
        \E r2 \in AnyResults({PatternList(MinStatistics, 1, 1)}) :
            r2.septal_penetration = 0 /\ r2.geometric_rejection = 0
                /\ InitMeasure(r1, r2)

NextMetrics == \E c \in Calls : Measure(c)

SpecMetrics == InitMetrics /\ [][NextMetrics]_vars

SpecMetricsAny == InitMetricsAny /\ [][NextMetrics]_vars

(***************************************************************************)
(* Properties of the kernel under Spec.                                    *)
(***************************************************************************)
Returned(c) == result[c] # << >>

\* C1: every returned result accounts for each trial exactly once:
\* detected_count + septal_penetration + geometric_rejection = total_photons,
\* total_photons is the requested num_photons, and detected_count is the
\* length of the detected list.
C1_TrialsAccounted ==
    \A c \in Calls : Returned(c) =>
        LET r == result[c][1]
        IN  /\ r.detected_count + r.septal_penetration + r.geometric_rejection
                 = r.total_photons
            /\ r.total_photons = args[c].num_photons
            /\ r.detected_count = Len(r.detected_photons)

\* a returned run in which each of the three outcomes occurred
C1_Witness ==
    \E c \in Calls : Returned(c) /\
        LET r == result[c][1]
        IN  /\ r.detected_count > 0
            /\ r.septal_penetration > 0
            /\ r.geometric_rejection > 0

\* C2: with num_photons = 0 the kernel raises nothing and returns the empty
\* result: no detected photon and all four counters 0, whatever the geometry.
C2_ZeroPhotons ==
    \A c \in Calls : (args[c].num_photons = 0 /\ pc[c] \notin {"absent", "new", "params"}) =>
        /\ pc[c] = "raised" => (sim[c] = << >> /\ exc[c] = "KeyError")
        /\ sim[c] # << >> => exc[c] = ""
        /\ Returned(c) =>
              result[c][1] = [detected_photons |-> << >>, total_photons |-> 0,
                              detected_count |-> 0, septal_penetration |-> 0,
                              geometric_rejection |-> 0]

\* a run of 0 photons has returned, for a geometry whose trials would raise
C2_Witness ==
    \E c \in Calls :
        /\ Returned(c)
        /\ args[c].num_photons = 0
        /\ args[c].hole_length = 0 /\ ~args[c].float64

MetricFields ==
    {"sensitivity", "spatial_resolution_fwhm", "uniformity", "contrast_to_noise",
     "septal_penetration_fraction", "geometric_efficiency"}

\* C3: for a result with no detected photon calculate_metrics returns all six
\* metrics, each 0.
C3_NoCountsAllSixZero ==
    \A c \in Calls :
        (Returned(c) /\ Len(result[c][1].detected_photons) = 0 /\ pc[c] # "returned") =>
            /\ metrics[c] # << >>
            /\ DOMAIN metrics[c][1] = MetricFields
            /\ \A f \in DOMAIN metrics[c][1] : metrics[c][1][f] = 0

\* C7: an unknown material name fails with ConfigurationError at construction:
\* no simulator exists, the kernel is never entered, and no other exception
\* is raised.
C7_UnknownMaterialConfigurationError ==
    \A c \in Calls : args[c].material \notin {"lead", "tungsten", "brass"} =>
        /\ sim[c] = << >>
        /\ pc[c] \in {"absent", "new", "params", "raised"}
        /\ pc[c] = "raised" => exc[c] = "ConfigurationError"

BadGeometry(a) == a.hole_length <= 0 \/ a.hole_diameter <= 0

\* C8: a zero or negative hole length or diameter fails with
\* ConfigurationError when the geometry is constructed: no parameters object
\* exists, simulate is never started and nothing is raised in the trial loop.
C8_BadGeometryFailsAtConstruction ==
    \A c \in Calls : BadGeometry(args[c]) =>
        /\ pc[c] \in {"absent", "new", "raised"}
        /\ pc[c] = "raised" => (exc[c] = "ConfigurationError" /\ params[c] = << >>)

SameInputs(a, b) ==
    /\ a.hole_diameter = b.hole_diameter /\ a.hole_length = b.hole_length
    /\ a.septal_thickness = b.septal_thickness /\ a.float64 = b.float64
    /\ a.material = b.material /\ a.num_photons = b.num_photons
    /\ a.seed # << >> /\ a.seed = b.seed

\* C9: two runs with the same geometry, material, photon count and seed
\* return the same result, counters and detected photons in order, and so
\* the same metrics.
C9_SameSeedSameResult ==
    SameInputs(args[1], args[2]) =>
        /\ (Returned(1) /\ Returned(2)) => result[1] = result[2]
        /\ (metrics[1] # << >> /\ metrics[2] # << >>) => metrics[1] = metrics[2]

\* both seeded runs have returned the same non-empty list of detections
C9_Witness ==
    /\ SameInputs(args[1], args[2])
    /\ Returned(1) /\ Returned(2)
    /\ result[1][1].detected_count > 0
    /\ result[1][1].septal_penetration + result[1][1].geometric_rejection > 0
    /\ metrics[2] # << >>

\* C10: a call returns what it returns when it runs alone from the generator
\* state it was entered with, whatever the other call does meanwhile.
C10_ResultIndependentOfOtherCall ==
    \A c \in Calls : Returned(c) =>
        SimulateAlone(sim[c][1], args[c].num_photons, rng0[c]).value = result[c]

(***************************************************************************)
(* Properties of calculate_metrics under SpecMetrics / SpecMetricsAny.     *)
(***************************************************************************)
Measured(c) == pc[c] \in {"measured", "raised"}

\* m is num / den (den > 0) cut to 1/1000
IsQuotient(m, num, den) ==
    /\ Abs(m) * den <= Abs(num)
    /\ Abs(num) < (Abs(m) + 1) * den
    /\ num >= 0 => m >= 0
    /\ num <= 0 => m <= 0

\* C4: for a dict with total_photons = 0, whatever its list and counters,
\* calculate_metrics divides by nothing and returns sensitivity, septal
\* penetration fraction and geometric efficiency as 0.
C4_ZeroTotalNoDivision ==
    \A c \in Calls :
        (Measured(c) /\ result[c][1].total_photons = 0) =>
            /\ exc[c] = ""
            /\ metrics[c] # << >>
            /\ {"sensitivity", "septal_penetration_fraction", "geometric_efficiency"}
                   \subseteq DOMAIN metrics[c][1]
            /\ metrics[c][1].sensitivity = 0
            /\ metrics[c][1].septal_penetration_fraction = 0
            /\ metrics[c][1].geometric_efficiency = 0

\* C5: with at least one detected photon and total_photons > 0 the three
\* percentages are those of the dict's own list and counters:
\* detected / total * 100, septal_penetration / total * 100 and
\* (total - geometric_rejection) / total * 100.
C5_PercentagesFromCounters ==
    \A c \in Calls :
        (Measured(c) /\ Len(result[c][1].detected_photons) >= 1
                     /\ result[c][1].total_photons > 0) =>
            LET r == result[c][1]
            IN  /\ exc[c] = "" /\ metrics[c] # << >>
                /\ IsQuotient(metrics[c][1].sensitivity,
                              100000 * Len(r.detected_photons), r.total_photons)
                /\ IsQuotient(metrics[c][1].septal_penetration_fraction,
                              100000 * r.septal_penetration, r.total_photons)
                /\ IsQuotient(metrics[c][1].geometric_efficiency,
                              100000 * (r.total_photons - r.geometric_rejection),
                              r.total_photons)

\* measured: three different percentages, none of them a whole number
C5_Witness ==
    /\ Measured(1) /\ metrics[1] # << >>
    /\ Len(result[1][1].detected_photons) = 2
    /\ result[1][1].total_photons = 3
    /\ result[1][1].septal_penetration = 1
    /\ result[1][1].geometric_rejection = 2
    /\ metrics[1][1].sensitivity = 66666
    /\ metrics[1][1].septal_penetration_fraction = 33333

\* the standard deviation of the positions as the mean squared deviation from
\* the mean, times 2.355
FwhmByDeviations(xq) ==
    LET n == Len(xq)
        total == SeqSum(xq)
        dev == [k \in 1..n |-> (n * xq[k] - total) * (n * xq[k] - total)]
    IN  (2355 * ISqrt(100 * (SeqSum(dev) \div n))) \div (1000 * n)

\* max(0, (1 - CV) * 100), CV = std / mean of the counts of the 10 x 10 bins
UniformityByBins(photons) ==
    LET n == Len(photons)
        x == Xs(photons)
        y == Ys(photons)
        xlo == SeqMin(x)
        xhi == SeqMax(x)
        ylo == SeqMin(y)
        yhi == SeqMax(y)
        bx == [k \in 1..n |-> BinIndex(x[k], xlo, xhi)]
        by == [k \in 1..n |-> BinIndex(y[k], ylo, yhi)]
        count(i, j) == Cardinality({k \in 1..n : bx[k] = i /\ by[k] = j})
        dev == [j \in 1..100 |->
                  LET cj == count((j - 1) % 10, (j - 1) \div 10)
                  IN  (100 * cj - n) * (100 * cj - n)]
        q == SeqSum(dev) \div 100
        \* 1000 * CV, capped at 1000 * 1 (beyond which the metric is 0 anyway)
        cv == IF q >= n * n THEN 100000 ELSE (ISqrt(q * 10000) * 1000) \div n
        u == 100000 - cv
    IN  IF u < 0 THEN 0 ELSE u

\* C6: with 1 to 9 detected photons calculate_metrics raises nothing and
\* returns spatial_resolution_fwhm = 0 and uniformity = 0 beside the other
\* four metrics; with 10 or more, both are computed from the positions.
C6_InsufficientStatistics ==
    \A c \in Calls :
        (Measured(c) /\ Len(result[c][1].detected_photons) >= 1) =>
            LET photons == result[c][1].detected_photons
            IN  /\ exc[c] = "" /\ metrics[c] # << >>
                /\ DOMAIN metrics[c][1] = MetricFields
                /\ metrics[c][1].sensitivity > 0
                /\ metrics[c][1].contrast_to_noise > 0
                /\ Len(photons) < 10 =>
                      /\ metrics[c][1].spatial_resolution_fwhm = 0
                      /\ metrics[c][1].uniformity = 0
                /\ Len(photons) >= 10 =>
                      /\ metrics[c][1].spatial_resolution_fwhm
                            = FwhmByDeviations(Xs(photons))
                      /\ metrics[c][1].uniformity = UniformityByBins(photons)

\* call 1 measured 9 spread-out photons (both metrics 0), call 2 a list with
\* a positive resolution and a positive uniformity
C6_Witness ==
    /\ Measured(1) /\ metrics[1] # << >>
    /\ Len(result[1][1].detected_photons) = 9
    /\ SeqMin(Xs(result[1][1].detected_photons)) < SeqMax(Xs(result[1][1].detected_photons))
    /\ metrics[1][1].spatial_resolution_fwhm = 0
    /\ Measured(2) /\ metrics[2] # << >>
    /\ metrics[2][1].spatial_resolution_fwhm > 0
    /\ metrics[2][1].uniformity > 0

(***************************************************************************)
(* SpecDistance: two runs, one after the other, that may differ in the     *)
(* source_distance they pass to simulate_photon_transport.                 *)
(***************************************************************************)
\* source_distance in 0.1 mm: the default 100.0 mm and twice that
DistanceChoices == {1000, 2000}

DistanceArgs ==
    { ArgsOf(g, m, n, sd, seed) :
        g \in {<<15, 250, 2, FALSE>>, <<25, 250, 2, FALSE>>},
        m \in {"lead"}, n \in {MaxPhotons},
        sd \in DistanceChoices, seed \in SeedChoices }

InitDistance ==
    /\ InitCommon
    /\ rng \in 0..(RngModulus - 1)
    /\ result = [c \in Calls |-> << >>]
    /\ args \in [Calls -> DistanceArgs]
    /\ pc = [c \in Calls |-> "new"]

SpecDistance == InitDistance /\ [][NextRepeat]_vars

SameButDistance(a, b) ==
    /\ a.hole_diameter = b.hole_diameter /\ a.hole_length = b.hole_length
    /\ a.septal_thickness = b.septal_thickness /\ a.float64 = b.float64
    /\ a.material = b.material /\ a.num_photons = b.num_photons

\* C11: source_distance never influences the result: two runs with the same
\* geometry, material and photon count that enter the kernel with the
\* generator in the same state return the same counters and the same detected
\* photons, whatever source_distance each was given.
C11_SourceDistanceUnused ==
    (/\ SameButDistance(args[1], args[2])
     /\ Returned(1) /\ Returned(2)
     /\ rng0[1] = rng0[2]) => result[1] = result[2]

\* two runs on the same stream with different source distances, with
\* detections and losses
C11_Witness ==
    /\ SameButDistance(args[1], args[2])
    /\ args[1].source_distance # args[2].source_distance
    /\ Returned(1) /\ Returned(2)
    /\ rng0[1] = rng0[2]
    /\ result[2][1].detected_count > 0
    /\ result[2][1].detected_count < result[2][1].total_photons

(***************************************************************************)
(* SpecPermute: calculate_metrics on two dicts with the same counters      *)
(* whose detected_photons lists are rearrangements of one another.         *)
(***************************************************************************)
Reverse(q) == [k \in 1..Len(q) |-> q[Len(q) + 1 - k]]
Rotate(q, r) == [k \in 1..Len(q) |-> q[((k - 1 + r) % Len(q)) + 1]]
Swap(q, i, j) ==
    [k \in 1..Len(q) |-> IF k = i THEN q[j] ELSE IF k = j THEN q[i] ELSE q[k]]

\* the reversal and every rotation of q
Rotations(q) == {Reverse(q)} \cup { Rotate(q, r) : r \in 1..(Len(q) - 1) }

\* every transposition of q (and q itself)
Transpositions(q) == { Swap(q, i, j) : i \in 1..Len(q), j \in 1..Len(q) }

\* a short list with any of its rotations and transpositions, or a list
\* spread over the grid with any of its rotations
PermutedPairs ==
    UNION { { <<ph, q>> : q \in Rotations(ph) \cup Transpositions(ph) } : ph \in SmallLists }
    \cup UNION { { <<ph, q>> : q \in Rotations(ph) } : ph \in LargeLists }

InitPermute ==
    \E pq \in PermutedPairs : \E sp \in 0..MaxLost :
        InitMeasure(ResultOf(pq[1], Len(pq[1]) + sp, sp, 0),
                    ResultOf(pq[2], Len(pq[2]) + sp, sp, 0))

SpecPermute == InitPermute /\ [][NextMetrics]_vars

\* p and q hold the same photons, each as many times
IsPermutation(p, q) ==
    /\ Len(p) = Len(q)
    /\ \A k \in 1..Len(p) :
          Cardinality({j \in 1..Len(p) : p[j] = p[k]})
              = Cardinality({j \in 1..Len(q) : q[j] = p[k]})

Diameters == {10, 15, 20, 25}

DiameterArgs(seed) ==
    { ArgsOf(<<d, 250, 2, FALSE>>, "lead", n, 1000, seed) :
        d \in Diameters, n \in {1, MaxPhotons} }

InitDiameter ==
    /\ InitCommon
    /\ rng = 0
    /\ result = [c \in Calls |-> << >>]
    /\ \E s \in 0..(RngModulus - 1) :
          /\ args \in [Calls -> DiameterArgs(<<s>>)]
          /\ args[1].num_photons = args[2].num_photons
    /\ pc = [c \in Calls |-> "new"]

SpecDiameter == InitDiameter /\ [][NextRepeat]_vars

\* C13: with hole length, septal thickness, material, photon count and seed
\* fixed, the sensitivity of the run with the larger hole diameter is never
\* lower than that of the run with the smaller one.
C13_SensitivityMonotone ==
    \A c \in Calls : \A e \in Calls :
        (/\ pc[c] = "measured" /\ pc[e] = "measured"
         /\ args[c].seed # << >> /\ args[c].seed = args[e].seed
         /\ args[c].hole_length = args[e].hole_length
         /\ args[c].septal_thickness = args[e].septal_thickness
         /\ args[c].material = args[e].material
         /\ args[c].num_photons = args[e].num_photons
         /\ args[c].hole_diameter <= args[e].hole_diameter)
            => metrics[c][1].sensitivity <= metrics[e][1].sensitivity

(***************************************************************************)
(* Order of the tests within a trial, under Spec.                          *)
(***************************************************************************)
CountersOf(l) == <<l.geometric_rejection_count, l.septal_penetration_count>>

\* C14: in each trial the acceptance test is decided before the septal test
\* and the trial changes exactly one part of the run state: a rejected photon
\* increments only geometric_rejection_count and draws no survival number, an
\* absorbed photon increments only septal_penetration_count, and only a
\* photon passing both is appended, both counters unchanged.
C14_OneOutcomePerTrial ==
    [][\A c \in Calls :
         LET l == loc[c]
             m == loc'[c]
             p == sim[c][1].params
         IN  /\ (pc'[c] = "septal" /\ pc[c] # "septal") =>
                   /\ pc[c] = "accept" /\ ~GeometricallyRejected(l.theta, p)
                   /\ m = l /\ rng' = rng
             /\ (pc[c] = "accept" /\ pc'[c] = "loop") =>
                   /\ GeometricallyRejected(l.theta, p)
                   /\ m.geometric_rejection_count = l.geometric_rejection_count + 1
                   /\ m.septal_penetration_count = l.septal_penetration_count
                   /\ m.detected_photons = l.detected_photons
                   /\ m.i = l.i + 1 /\ rng' = rng
             /\ (pc[c] = "septal" /\ pc'[c] = "loop") =>
                   /\ m.septal_penetration_count = l.septal_penetration_count + 1
                   /\ m.geometric_rejection_count = l.geometric_rejection_count
                   /\ m.detected_photons = l.detected_photons
                   /\ m.i = l.i + 1
             /\ (pc'[c] = "detect" /\ pc[c] # "detect") =>
                   /\ pc[c] = "septal" /\ ~GeometricallyRejected(l.theta, p)
                   /\ m = l
             /\ (pc[c] = "detect" /\ pc'[c] # "detect") =>
                   /\ pc'[c] = "loop"
                   /\ Len(m.detected_photons) = Len(l.detected_photons) + 1
                   /\ SubSeq(m.detected_photons, 1, Len(l.detected_photons))
                         = l.detected_photons
                   /\ CountersOf(m) = CountersOf(l)
                   /\ m.i = l.i + 1
             /\ (pc[c] = "loop" /\ pc'[c] = "theta") => m = l
       ]_vars

\* a run in its loop after one trial of each outcome, not yet returned
C14_Witness ==
    \E c \in Calls :
        /\ pc[c] = "loop" /\ result[c] = << >>
        /\ loc[c].i = 3
        /\ Len(loc[c].detected_photons) = 1
        /\ CountersOf(loc[c]) = <<1, 1>>

(***************************************************************************)
(* Direction of the detected photons, under Spec.                          *)
(***************************************************************************)
\* dz = np.cos(theta) of the trial in progress
Dz(c) == Cos(loc[c].theta)

\* the farthest a photon can land from the axis of the detector: half the
\* detector face plus hole_length * tan(pi/6), in 0.01 mm
Reach(c) ==
    LET p == sim[c][1].params
    IN  Quot(Abs(DetectorWidth(p)), 2) + (Abs(p.hole_length) * 10 * 578) \div 1000 + 1

\* C15: no trial with dz <= 0 is recorded as detected: a photon on its way to
\* the detected list has dz > 0, and every photon in the list has a finite
\* position, within the detector face widened by hole_length * tan(pi/6).
C15_DetectedGoForward ==
    \A c \in Calls :
        /\ pc[c] = "detect" => Dz(c) > 0
        /\ \A k \in 1..Len(loc[c].detected_photons) :
              /\ Abs(loc[c].detected_photons[k].x) <= Reach(c)
              /\ Abs(loc[c].detected_photons[k].y) <= Reach(c)

\* a photon at the largest polar angle is on its way to the detected list,
\* after another has been recorded off the axis
C15_Witness ==
    \E c \in Calls :
        /\ pc[c] = "detect"
        /\ Abs(loc[c].theta) = 523
        /\ Len(loc[c].detected_photons) >= 1
        /\ loc[c].detected_photons[1].x # 0

(***************************************************************************)
(* SpecExtreme: the kernel of a simulator whose material has been replaced *)
(* by a synthetic one with a very large attenuation coefficient, on valid  *)
(* geometries (all dimensions positive).                                   *)
(***************************************************************************)
\* attenuation_coefficient in 1/cm, large enough for exp() to underflow to 0
\* on the septal path of every off-axis sample angle
ExtremeMaterial ==
    [density |-> 1134, attenuation_coefficient |-> 1000 * 1000, name |-> "Extreme"]

ValidGeometries == { <<15, 250, 2, FALSE>>, <<25, 250, 2, FALSE>>, <<25, 20, 2, FALSE>> }

ExtremeArgs ==
    { ArgsOf(g, "extreme", n, 1000, seed) :
        g \in ValidGeometries, n \in 1..MaxPhotons, seed \in SeedChoices }

\* the state after params = CollimatorParams(...), simulator =
\* SPECTSimulator(params) and the replacement of simulator.material
InitExtreme ==
    /\ \E a \in ExtremeArgs :
          LET p == CollimatorParams(a.hole_diameter, a.hole_length,
                                    a.septal_thickness, a.material, a.float64)
          IN  /\ args = [c \in Calls |-> IF c = 1 THEN a ELSE NoArgs]
              /\ params = [c \in Calls |-> IF c = 1 THEN <<p>> ELSE << >>]
              /\ sim = [c \in Calls |->
                          IF c = 1 THEN <<[params |-> p, material |-> ExtremeMaterial]>>
                          ELSE << >>]
    /\ rng \in 0..(RngModulus - 1)
    /\ pc = [c \in Calls |-> IF c = 1 THEN "ready" ELSE "absent"]
    /\ loc = [c \in Calls |-> NoLocals]
    /\ result = [c \in Calls |-> << >>]
    /\ metrics = [c \in Calls |-> << >>]
    /\ exc = [c \in Calls |-> ""]
    /\ rng0 = [c \in Calls |-> 0]
    /\ OptIdle

NextExtreme ==
    \/ SeedGenerator(1)
    \/ BeginSimulate(1)
    \/ NextTrial(1)
    \/ Return(1)
    \/ DrawTheta(1)
    \/ DrawPhi(1)
    \/ DrawX0(1)
    \/ DrawY0(1)
    \/ Acceptance(1)
    \/ Septal(1)
    \/ Detect(1)
    \/ Measure(1)

SpecExtreme == InitExtreme /\ [][NextExtreme]_vars

SweepPhotons == 24   \* num_photons of each run of the sweep (3000 in the script)

\* members of np.linspace(1.0, 3.0, 9) and np.linspace(20, 35, 7), in 0.1 mm
hole_diameters == <<20, 30>>
hole_lengths   == <<200, 225>>
materials      == <<"lead", "tungsten">>

total_simulations == Len(hole_diameters) * Len(hole_lengths) * Len(materials)

\* the combination run number k (from 1) works on: material outermost, then
\* diameter, then length
Combination(k) ==
    LET nl == Len(hole_lengths)
        nd == Len(hole_diameters)
    IN  [material      |-> materials[((k - 1) \div (nd * nl)) + 1],
         hole_diameter |-> hole_diameters[(((k - 1) \div nl) % nd) + 1],
         hole_length   |-> hole_lengths[((k - 1) % nl) + 1]]

\* positions rounded to whole millimetres, which keeps the sums of squares of
\* calculate_metrics within range for the positions the kernel produces
InMillimetres(photons) ==
    [k \in 1..Len(photons) |->
        [x |-> Quot(photons[k].x, 100), y |-> Quot(photons[k].y, 100),
         energy |-> photons[k].energy]]

\* lines 34-47: current += 1, params, simulator, the run and its metrics
SweepRun ==
    /\ opc = "sweep"
    /\ current < total_simulations
    /\ current' = current + 1
    /\ LET k == Combination(current + 1)
           p == CollimatorParams(k.hole_diameter, k.hole_length, 2, k.material, TRUE)
           simulator == [params |-> p, material |-> MATERIALS[p.material]]
           run == RunTrials(rng, EntryLocals(p), simulator, SweepPhotons)
           r == run.value[1]
       IN  /\ params' = [params EXCEPT ![1] = <<p>>]
           /\ sim' = [sim EXCEPT ![1] = <<simulator>>]
           /\ result' = [result EXCEPT ![1] = run.value]
           /\ rng' = run.rng
           /\ metrics' = [metrics EXCEPT ![1] =
                 <<CalculateMetrics(
                      [r EXCEPT !.detected_photons = InMillimetres(@)])>>]
    /\ opc' = "row"
    /\ UNCHANGED <<args, pc, loc, exc, rng0, results, oexc,
                   lead_data_sorted, pareto_points, min_resolution, row_i>>

\* lines 49-58: the row is built key by key and appended.  A missing key
\* raises KeyError; the figure of merit divides by the resolution, which is
\* the int 0 below MinStatistics photons (ZeroDivisionError) and a numpy
\* float64 otherwise (0.0 gives inf or nan, here << >>, and no exception)
SweepAppend ==
    /\ opc = "row"
    /\ LET m == metrics[1][1]
           k == Combination(current)
           n == Len(result[1][1].detected_photons)
       IN  IF "septal_penetration_fraction" \notin DOMAIN m
           THEN opc' = "raised" /\ oexc' = "KeyError" /\ results' = results
           ELSE IF m.spatial_resolution_fwhm = 0 /\ n < MinStatistics
           THEN opc' = "raised" /\ oexc' = "ZeroDivisionError" /\ results' = results
           ELSE /\ results' = Append(results,
                     [material |-> k.material,
                      hole_diameter |-> k.hole_diameter,
                      hole_length |-> k.hole_length,
                      sensitivity |-> m.sensitivity,
                      resolution |-> m.spatial_resolution_fwhm,
                      uniformity |-> m.uniformity,
                      septal_penetration |-> m.septal_penetration_fraction,
                      figure_of_merit |->
                         IF m.spatial_resolution_fwhm = 0 THEN << >>
                         ELSE <<Quot((m.sensitivity \div 100) * (m.uniformity \div 100),
                                     m.spatial_resolution_fwhm)>>])
                /\ opc' = "sweep"
                /\ oexc' = oexc
    /\ UNCHANGED <<rng, args, pc, sim, loc, result, metrics, exc, params, rng0,
                   current, lead_data_sorted, pareto_points, min_resolution, row_i>>

\* line 61: the loops are exhausted, return pd.DataFrame(results)
SweepReturn ==
    /\ opc = "sweep"
    /\ current = total_simulations
    /\ opc' = "swept"
    /\ UNCHANGED <<rng, args, pc, sim, loc, result, metrics, exc, params, rng0,
                   current, results, oexc, lead_data_sorted, pareto_points,
                   min_resolution, row_i>>

InitSweep ==
    /\ rng \in 0..(RngModulus - 1)
    /\ args = [c \in Calls |-> NoArgs]
    /\ pc = [c \in Calls |-> "absent"]
    /\ sim = [c \in Calls |-> << >>]
    /\ params = [c \in Calls |-> << >>]
    /\ loc = [c \in Calls |-> NoLocals]
    /\ result = [c \in Calls |-> << >>]
    /\ metrics = [c \in Calls |-> << >>]
    /\ exc = [c \in Calls |-> ""]
    /\ rng0 = [c \in Calls |-> 0]
    /\ opc = "sweep"
    /\ current = 0
    /\ results = << >>
    /\ oexc = ""
    /\ lead_data_sorted = << >>
    /\ pareto_points = << >>
    /\ min_resolution = << >>
    /\ row_i = 0

NextSweep ==
    \/ SweepRun
    \/ SweepAppend
    \/ SweepReturn

SpecSweep == InitSweep /\ [][NextSweep]_vars

\* C18: parameter_sweep_analysis never raises while it builds a row, whatever
\* the number of photons a run detects; it runs every (material, diameter,
\* length) combination once, material outermost and length innermost, and
\* returns exactly total_simulations rows.
C18_SweepCompletes ==
    /\ opc # "raised"
    /\ Len(results) <= total_simulations
    /\ \A k \in 1..Len(results) :
          /\ results[k].material = Combination(k).material
          /\ results[k].hole_diameter = Combination(k).hole_diameter
          /\ results[k].hole_length = Combination(k).hole_length
    /\ opc = "swept" => Len(results) = total_simulations

(***************************************************************************)
(* SpecPareto: the Pareto-front selection of                               *)
(* visualize_optimization_results(df) on a DataFrame of up to MaxRows      *)
(* designs.                                                                *)
(***************************************************************************)
MaxRows == 3   \* largest number of rows of df

\* a row of df; sensitivity in 1/1000 %, resolution in 1/1000 mm
DesignRow(m, sens, res) ==
    [material |-> m, hole_diameter |-> 20, hole_length |-> 200,
     sensitivity |-> sens, resolution |-> res, uniformity |-> 0,
     septal_penetration |-> 0, figure_of_merit |-> <<0>>]

DesignRows ==
    { DesignRow(m, sens, res) :
        m \in {"lead", "tungsten"}, sens \in {1000, 2000, 3000},
        res \in {1000, 2000, 3000} }

DataFrames == UNION { [1..n -> DesignRows] : n \in 0..MaxRows }

IsLead(row) == row.material = "lead"

\* lead_data = df[df['material'] == 'lead']
LeadData(df) == SelectSeq(df, IsLead)

\* lead_data.sort_values('sensitivity'): ascending; the default sort is not
\* stable, so rows of equal sensitivity come in any order
SortValues(rows) ==
    LET n == Len(rows)
        orders == { q \in [1..n -> 1..n] :
                      /\ \A i \in 1..n : \A j \in 1..n : i # j => q[i] # q[j]
                      /\ \A i \in 1..n : \A j \in 1..n :
                            i < j => rows[q[i]].sensitivity <= rows[q[j]].sensitivity }
    IN  { [k \in 1..n |-> rows[q[k]]] : q \in orders }

\* lines 160-162
SortLead ==
    /\ opc = "visualize"
    /\ lead_data_sorted' \in SortValues(LeadData(results))
    /\ pareto_points' = << >>
    /\ min_resolution' = << >>
    /\ row_i' = 0
    /\ opc' = "pareto"
    /\ UNCHANGED <<rng, args, pc, sim, loc, result, metrics, exc, params, rng0,
                   current, results, oexc>>

\* lines 164-167: one iteration of the loop over lead_data_sorted
ParetoStep ==
    /\ opc = "pareto"
    /\ row_i < Len(lead_data_sorted)
    /\ LET row == lead_data_sorted[row_i + 1]
       IN  IF min_resolution = << >> \/ row.resolution < min_resolution[1]
           THEN /\ pareto_points' = Append(pareto_points, row)
                /\ min_resolution' = <<row.resolution>>
           ELSE UNCHANGED <<pareto_points, min_resolution>>
    /\ row_i' = row_i + 1
    /\ UNCHANGED <<rng, args, pc, sim, loc, result, metrics, exc, params, rng0,
                   opc, current, results, oexc, lead_data_sorted>>

\* line 169: the loop is exhausted, pareto_df = pd.DataFrame(pareto_points)
ParetoDone ==
    /\ opc = "pareto"
    /\ row_i = Len(lead_data_sorted)
    /\ opc' = "done"
    /\ UNCHANGED <<rng, args, pc, sim, loc, result, metrics, exc, params, rng0,
                   current, results, oexc, lead_data_sorted, pareto_points,
                   min_resolution, row_i>>

InitPareto ==
    /\ rng = 0
    /\ args = [c \in Calls |-> NoArgs]
    /\ pc = [c \in Calls |-> "absent"]
    /\ sim = [c \in Calls |-> << >>]
    /\ params = [c \in Calls |-> << >>]
    /\ loc = [c \in Calls |-> NoLocals]
    /\ result = [c \in Calls |-> << >>]
    /\ metrics = [c \in Calls |-> << >>]
    /\ exc = [c \in Calls |-> ""]
    /\ rng0 = [c \in Calls |-> 0]
    /\ opc = "visualize"
    /\ current = 0
    /\ results \in DataFrames
    /\ oexc = ""
    /\ lead_data_sorted = << >>
    /\ pareto_points = << >>
    /\ min_resolution = << >>
    /\ row_i = 0

NextPareto ==
    \/ SortLead
    \/ ParetoStep
    \/ ParetoDone

SpecPareto == InitPareto /\ [][NextPareto]_vars

\* a is at least as good as b in both objectives and better in one
Dominates(a, b) ==
    /\ a.sensitivity >= b.sensitivity
    /\ a.resolution <= b.resolution
    /\ a.sensitivity > b.sensitivity \/ a.resolution < b.resolution

\* C17: the points selected as the Pareto front are Pareto-optimal for
\* (maximize sensitivity, minimize resolution): no selected lead design is
\* dominated by another lead design.
C17_ParetoFrontOptimal ==
    opc = "done" =>
        \A k \in 1..Len(pareto_points) :
            \A j \in 1..Len(results) :
                IsLead(results[j]) => ~Dominates(results[j], pareto_points[k])
====
